---------------------------- MODULE Spec2Model ----------------------------
(***************************************************************************)
(* A model of the cppLisp interpreter (src/main.cpp): tokenizer, reader,   *)
(* printer, chained environments, the evaluator with its builtins, and one *)
(* iteration of the read-eval-print loop as the single operation.          *)
(*                                                                         *)
(* Text is a sequence of one-character strings.  A lisp_cell pointer is    *)
(* modelled by the (immutable) value it points to; the four sentinel cells *)
(* carry their own tag because the code compares them by address.          *)
(* Environments are heap objects addressed by their index in envs.         *)
(***************************************************************************)
EXTENDS Integers, Sequences, FiniteSets, TLC

VARIABLES
    envs,       \* the environment heap: envs[1] is global_env (main.cpp:799)
    line,       \* the input line of the last repl iteration
    tokens,     \* its tokens
    sexpr,      \* the tree makeLispObject built from them
    cursor,     \* it_next after makeLispObject (index into tokens)
    echo,       \* printLispObject(sexpr)
    result,     \* eval(sexpr, env)
    printed,    \* printLispObject(result)
    status,     \* how the iteration ended
    undefined_symbols, \* the dedup list of FindSymbol (main.cpp:27)
    trace,      \* calls made by the last eval: closure applications, UpdateSymbol
    input       \* the lines read so far, oldest first

vars == <<envs, line, tokens, sexpr, cursor, echo, result, printed, status,
          undefined_symbols, trace, input>>

-----------------------------------------------------------------------------
(* Characters                                                              *)

LowerSeq == <<"a","b","c","d","e","f","g","h","i","j","k","l","m",
              "n","o","p","q","r","s","t","u","v","w","x","y","z">>
UpperSeq == <<"A","B","C","D","E","F","G","H","I","J","K","L","M",
              "N","O","P","Q","R","S","T","U","V","W","X","Y","Z">>
DigitSeq == <<"0","1","2","3","4","5","6","7","8","9">>

Range(f) == {f[i] : i \in DOMAIN f}

\* Only({e : x \in {v}}) is e with x standing for the value of v, which is
\* computed once
Only(S) == CHOOSE r \in S : TRUE

Lower == Range(LowerSeq)
Upper == Range(UpperSeq)
Digit == Range(DigitSeq)
Alpha == Lower \cup Upper
Alnum == Alpha \cup Digit
Punct == {"(",")","[","]","{","}",":","*","/","+","-","<",">","=","#",
          "\"","'",".","_","!","?",",",";","@","$","%","&","^","|","~","\\"}
Space == {" ", "\t"}
\* the terminating 0 of c_str()
NUL == "NUL"
\* a character that is neither printable nor white space (e.g. 0x01)
CTRL == "CTRL"

isspace(c) == c \in Space
isprint(c) == c \in Alnum \cup Punct \cup {" "}
isalpha(c) == c \in Alpha
isdigit(c) == c \in Digit
isalnum(c) == c \in Alnum
EOINPUT(c) == c = NUL \/ c = "\n"
ops == {"(",")","[","]","{","}",":","*","/"}

\* s.c_str()[i-1]: the text is followed by its terminating 0
At(s, i) == IF i \in 1..Len(s) THEN s[i] ELSE NUL

tolower(c) == IF c \in Upper THEN LowerSeq[CHOOSE i \in DOMAIN UpperSeq : UpperSeq[i] = c]
              ELSE c
to_lower(s) == [i \in DOMAIN s |-> tolower(s[i])]

-----------------------------------------------------------------------------
(* Values (lisp_cell)                                                      *)

NULL == [t |-> "null"]
Integer(n) == [t |-> "int", n |-> n]
CStr(s) == [t |-> "cstr", str |-> s]
Sym(s) == [t |-> "sym", name |-> s]
Proc(p) == [t |-> "proc", p |-> p]
Cells(a, d) == [t |-> "cells", car |-> a, cdr |-> d]
Lambda(ps, b, e) == [t |-> "lambda", params |-> ps, body |-> b, env |-> e]

Sentinel(s) == [t |-> "sent", name |-> s]
false_sexpr == Sentinel(<<"#","f">>)
true_sexpr == Sentinel(<<"#","t">>)
nil_sexpr == Sentinel(<<"#","n","i","l">>)
bad_sexpr == Sentinel(<<"#","e","r","r","o","r">>)

isLispCells(v) == v.t = "cells"
isAtom(v) == ~isLispCells(v)
isInt(v) == v.t = "int"
isSymbol(v) == v.t \in {"sym", "sent"}
isLambda(v) == v.t = "lambda"
isConstant(v) == v.t \in {"int", "cstr"}
car(v) == IF isLispCells(v) THEN v.car ELSE NULL
cdr(v) == IF isLispCells(v) THEN v.cdr ELSE NULL

-----------------------------------------------------------------------------
(* tokenize (main.cpp:581-654)                                             *)

\* islower() returns a flag, zero or not, which line 612 compares with the
\* character 'x'
islower(c) == IF c \in Lower THEN "nonzero" ELSE "zero"
isxdigit(c) == c \in Digit \cup {"a","b","c","d","e","f","A","B","C","D","E","F"}

RECURSIVE ScanWhile(_, _, _)
\* while (At(s, i) is in S) i++
ScanWhile(s, i, S) == IF At(s, i) \in S THEN ScanWhile(s, i + 1, S) ELSE i

RECURSIVE ScanString(_, _, _)
\* lines 635-641: the body of a "quoted string"
ScanString(s, i, str) ==
    LET c == At(s, i) IN
    IF EOINPUT(c) \/ c = "\"" THEN [str |-> str, next |-> i]
    ELSE IF c = "'" /\ ~EOINPUT(At(s, i + 1))
         THEN ScanString(s, i + 2, str \o <<c, At(s, i + 1)>>)
         ELSE ScanString(s, i + 1, Append(str, c))

\* lines 606-620: an integer token
ScanInteger(s, i) ==
    LET c == At(s, i)
        signed == c \in {"+", "-"}
        i1 == IF signed THEN i + 1 ELSE i
        sign == IF signed THEN <<c>> ELSE <<>>
        hex == At(s, i1) = "0" /\ islower(At(s, i1 + 1)) = "x" /\ isxdigit(At(s, i1 + 2))
        i2 == IF hex THEN i1 + 2 ELSE i1
        prefix == IF hex THEN <<"0", "x">> ELSE <<>>
    IN Only({[str |-> sign \o prefix \o SubSeq(s, i2, j - 1), next |-> j]
             : j \in {IF hex THEN ScanWhile(s, i2, Digit \cup {x \in Alpha : isxdigit(x)})
                      ELSE ScanWhile(s, i2, Digit)}})

\* lines 589-644: one pass of the loop body; str = <<>> when no class matches
NextToken(s, i) ==
    LET c == At(s, i) IN
    IF c \in ops THEN [str |-> <<c>>, next |-> i + 1]
    ELSE IF isalpha(c) \/ c = "_"
    THEN Only({[str |-> SubSeq(s, i, j - 1), next |-> j]
               : j \in {ScanWhile(s, i, Alnum \cup {"_"})}})
    ELSE IF c = "#" /\ isalpha(At(s, i + 1))
    THEN Only({[str |-> SubSeq(s, i, j - 1), next |-> j]
               : j \in {ScanWhile(s, i + 1, Alnum \cup {"_"})}})
    ELSE IF isdigit(c) \/ (c \in {"+", "-"} /\ isdigit(At(s, i + 1)))
    THEN ScanInteger(s, i)
    ELSE IF c \in {"+", "-"} THEN [str |-> <<c>>, next |-> i + 1]
    ELSE IF c \in {"<", ">"}
    THEN IF At(s, i + 1) = "=" THEN [str |-> <<c, "=">>, next |-> i + 2]
         ELSE [str |-> <<c>>, next |-> i + 1]
    ELSE IF c = "\""
    THEN Only({IF At(s, r.next) = "\""
               THEN [str |-> Append(r.str, "\""), next |-> r.next + 1]
               ELSE r
               : r \in {ScanString(s, i + 1, <<c>>)}})
    ELSE [str |-> <<>>, next |-> i]

RECURSIVE TokLoop(_, _, _)
\* lines 587-653
TokLoop(s, i, toks) ==
    IF EOINPUT(At(s, i)) THEN toks
    ELSE Only({
           \* line 646: an unknown character is reported and skipped
           Only({TokLoop(s, n2, IF r.str = <<>> THEN toks ELSE Append(toks, r.str))
                 : n2 \in {ScanWhile(s, IF r.str = <<>> THEN i + 1 ELSE r.next,
                                     {x \in Space \cup {CTRL} : isspace(x) \/ ~isprint(x)})}})
           : r \in {NextToken(s, i)}})

\* lines 585-586: the leading skip has no end-of-input test, so on a line with
\* no printable non-blank character it walks past the terminating 0
LeadingSkip(s) == ScanWhile(s, 1, {x \in Space \cup {CTRL} : isspace(x) \/ ~isprint(x)})

\* tokenize: ok is FALSE when the leading skip left the buffer (undefined)
tokenize(s) ==
    Only({IF ~isprint(At(s, i)) THEN [ok |-> FALSE, tokens |-> <<>>]
          ELSE [ok |-> TRUE, tokens |-> TokLoop(s, i, <<>>)]
          : i \in {LeadingSkip(s)}})

-----------------------------------------------------------------------------
(* makeLispObject / makeLispTree (main.cpp:663-705)                        *)

DigitVal(c) == (CHOOSE i \in DOMAIN DigitSeq : DigitSeq[i] = c) - 1
HexVal(c) == IF c \in Digit THEN DigitVal(c)
             ELSE 9 + (CHOOSE i \in 1..6 : LowerSeq[i] = tolower(c))

RECURSIVE ParseDigits(_, _, _, _)
\* the value of the longest prefix of s from i on that is a numeral of the base
ParseDigits(s, i, base, acc) ==
    LET c == At(s, i)
        okc == IF base = 16 THEN isxdigit(c) ELSE isdigit(c) /\ DigitVal(c) < base
    IN IF okc THEN ParseDigits(s, i + 1, base, acc * base + HexVal(c)) ELSE acc

\* strtoll(token, 0, 0) on a token that starts with a digit: base 0 reads a
\* 0x prefix as hexadecimal and a leading 0 as octal.  (Saturation at
\* LLONG_MAX needs more digits than the model's tokens have.)
strtoll(s) ==
    IF At(s, 1) = "0" /\ At(s, 2) \in {"x", "X"} /\ isxdigit(At(s, 3))
    THEN ParseDigits(s, 3, 16, 0)
    ELSE IF At(s, 1) = "0" THEN ParseDigits(s, 1, 8, 0)
    ELSE ParseDigits(s, 1, 10, 0)

RECURSIVE makeLispObject(_, _)
RECURSIVE makeLispTree(_, _)

\* Both return [v, pos, ok]: the cell, the shared cursor afterwards, and ok =
\* FALSE when *++token_stream read at or past end (undefined).
makeLispObject(toks, pos) ==
    IF pos = Len(toks) + 1 THEN [v |-> NULL, pos |-> pos, ok |-> TRUE]
    ELSE LET token == toks[pos] IN
         IF isdigit(token[1]) THEN [v |-> Integer(strtoll(token)), pos |-> pos, ok |-> TRUE]
         ELSE IF token[1] = "\"" THEN [v |-> CStr(token), pos |-> pos, ok |-> TRUE]
         ELSE IF token[1] # "(" THEN [v |-> Sym(to_lower(token)), pos |-> pos, ok |-> TRUE]
         ELSE makeLispTree(toks, pos)

makeLispTree(toks, pos) ==
    LET p1 == pos + 1 IN
    IF p1 > Len(toks) THEN [v |-> NULL, pos |-> p1, ok |-> FALSE]
    ELSE IF toks[p1][1] = ")" THEN [v |-> NULL, pos |-> p1, ok |-> TRUE]
    ELSE Only({
           IF ~a.ok THEN a
           ELSE Only({IF ~d.ok THEN d
                      ELSE IF d.v = NULL THEN [v |-> a.v, pos |-> d.pos, ok |-> TRUE]
                      ELSE [v |-> Cells(a.v, d.v), pos |-> d.pos, ok |-> TRUE]
                      : d \in {makeLispTree(toks, a.pos)}})
           : a \in {makeLispObject(toks, p1)}})

\* repl, lines 768-775: the parentheses are balanced
Balanced(toks) ==
    Cardinality({i \in DOMAIN toks : toks[i][1] = "("})
        = Cardinality({i \in DOMAIN toks : toks[i][1] = ")"})

-----------------------------------------------------------------------------
(* printLispObject / printLispTree (main.cpp:708-755)                      *)

RECURSIVE DecDigits(_)
DecDigits(n) == IF n < 10 THEN <<DigitSeq[n + 1]>>
                ELSE Append(DecDigits(n \div 10), DigitSeq[(n % 10) + 1])

\* sprintf(buf, "%lld", n)
FormatInt(n) == IF n < 0 THEN <<"-">> \o DecDigits(-n) ELSE DecDigits(n)

RECURSIVE printLispObject(_)
RECURSIVE printLispTree(_)

printLispObject(v) ==
    IF v = NULL THEN <<"n","u","l","l">>
    ELSE IF isLambda(v) THEN <<"<","L","a","m","b","d","a",">">>
    ELSE IF isLispCells(v) THEN <<"(">> \o printLispTree(v)
    ELSE IF isInt(v) THEN FormatInt(v.n)
    ELSE IF v.t = "cstr" THEN v.str
    ELSE IF isSymbol(v) THEN v.name
    ELSE <<"b","a","d"," ","s","y","m","b","o","l">>

printLispTree(v) ==
    LET s == printLispObject(car(v)) IN
    IF cdr(v) = NULL \/ cdr(v) = nil_sexpr THEN s \o <<")">>
    ELSE IF isLispCells(cdr(v)) THEN s \o <<" ">> \o printLispTree(cdr(v))
    ELSE s \o <<" ",".", " ">> \o printLispObject(cdr(v)) \o <<")">>

-----------------------------------------------------------------------------
(* The state threaded through one call of eval:                            *)
(*   envs   the environment heap; envs[e] = [map, outer, live], outer = 0  *)
(*          for the global environment, live = FALSE once deleted          *)
(*   undef  undefined_symbols                                              *)
(*   trace  the closure applications and UpdateSymbol calls made so far    *)
(*   fault  "none" until the process dies                                  *)
(*   ub     what undefined behaviour does in this run: "trap" (the process *)
(*          dies) or "quiet" (a deleted environment still reads as it was  *)
(*          left, an integer division by zero yields 0)                    *)

R(v, st) == [v |-> v, st |-> st]
Fault(st, f) == [st EXCEPT !.fault = f]
Faulted(st) == st.fault # "none"

MapPut(m, k, v) == [x \in DOMAIN m \cup {k} |-> IF x = k THEN v ELSE m[x]]

S_quote == <<"q","u","o","t","e">>
S_lambda == <<"l","a","m","b","d","a">>

\* add_globals (main.cpp:458-487)
GlobalBindings ==
    { <<<<"n","i","l">>, nil_sexpr>>,
      <<<<"#","f">>, false_sexpr>>,
      <<<<"#","t">>, true_sexpr>>,
      <<<<"+">>, Proc("proc_add")>>,
      <<<<"-">>, Proc("proc_sub")>>,
      <<<<"*">>, Proc("proc_mul")>>,
      <<<<"/">>, Proc("proc_div")>>,
      <<<<">">>, Proc("proc_cmpgt")>>,
      <<<<"<">>, Proc("proc_cmplt")>>,
      <<<<"<","=">>, Proc("proc_cmple")>>,
      <<<<">","=">>, Proc("proc_cmpge")>>,
      <<<<"e","q">>, Proc("proc_cmpeq")>>,
      <<<<"n","e">>, Proc("proc_cmpne")>>,
      <<<<"b","e","g","i","n">>, Proc("eval_begin")>>,
      <<<<"c","a","r">>, Proc("eval_car")>>,
      <<<<"c","d","r">>, Proc("eval_cdr")>>,
      <<<<"c","o","n","s">>, Proc("eval_cons")>>,
      <<<<"d","e","f","i","n","e">>, Proc("eval_define")>>,
      <<<<"i","f">>, Proc("eval_if")>>,
      <<<<"l","i","s","t">>, Proc("eval_list")>>,
      <<<<"s","e","t","q">>, Proc("eval_setq")>> }

add_globals ==
    [k \in {b[1] : b \in GlobalBindings} |-> (CHOOSE b \in GlobalBindings : b[1] = k)[2]]

\* main, line 799: global_env, with no outer environment
global_env == [map |-> add_globals, outer |-> 0, live |-> TRUE]

-----------------------------------------------------------------------------
(* environment::FindSymbol and UpdateSymbol (main.cpp:139-177)             *)

\* A use of *e.  Once eval_lambda has deleted e (line 505) the use is
\* undefined: the run either dies or goes on with what the object last held.
Deref(st, e) ==
    IF st.envs[e].live \/ st.ub = "quiet" THEN st ELSE Fault(st, "use-after-free")

RECURSIVE FindSymbol(_, _, _)
\* returns [found, v, st]
FindSymbol(st, e, s) ==
    Only({
      IF Faulted(st1) THEN [found |-> FALSE, v |-> NULL, st |-> st1]
      ELSE IF s \in DOMAIN st1.envs[e].map
      THEN [found |-> TRUE, v |-> st1.envs[e].map[s], st |-> st1]
      ELSE IF st1.envs[e].outer # 0 THEN FindSymbol(st1, st1.envs[e].outer, s)
      ELSE [found |-> FALSE, v |-> NULL,
            st |-> IF \E i \in DOMAIN st1.undef : st1.undef[i] = s THEN st1
                   ELSE [st1 EXCEPT !.undef = Append(@, s)]]
      : st1 \in {Deref(st, e)}})

\* iter->second = lisp_cell (line 167), no different from env_[s] = lisp_cell
\* (line 170) once the symbol is known to be there
UpdateInPlaceWrong(m, s, v) == m
UpdateInPlace(m, s, v) == MapPut(m, s, v)

\* UpdateSymbol with current_scope_only taken as true whatever the caller passed
UpdateSymbolWrong(st, e, s, v, current_scope_only) ==
    [ok |-> TRUE, st |-> [st EXCEPT !.envs[e].map = MapPut(@, s, v)]]

RECURSIVE UpdateSymbol(_, _, _, _, _)
\* returns [ok, st]
UpdateSymbol(st, e, s, v, current_scope_only) ==
    Only({
      IF Faulted(st1) THEN [ok |-> FALSE, st |-> st1]
      ELSE IF s \in DOMAIN st1.envs[e].map
      THEN [ok |-> TRUE,
            st |-> [st1 EXCEPT !.envs[e].map = UpdateInPlace(@, s, v)]]
      ELSE IF current_scope_only
      THEN [ok |-> TRUE, st |-> [st1 EXCEPT !.envs[e].map = MapPut(@, s, v)]]
      ELSE IF st1.envs[e].outer # 0
      THEN UpdateSymbol(st1, st1.envs[e].outer, s, v, FALSE)
      ELSE [ok |-> FALSE, st |-> st1]
      : st1 \in {Deref(st, e)}})

-----------------------------------------------------------------------------
(* Primitive operations (main.cpp:202-345)                                 *)

hasTwoOperands(x) == ~(x = NULL \/ car(x) = NULL \/ cdr(x) = NULL)

ArithProcs == {"proc_add", "proc_sub", "proc_mul", "proc_div"}
CmpProcs == {"proc_cmpgt", "proc_cmpge", "proc_cmplt", "proc_cmple",
             "proc_cmpeq", "proc_cmpne"}

Abs(n) == IF n < 0 THEN -n ELSE n
\* n1 / n2 of C++ truncates toward zero
TruncDiv(n1, n2) == IF (n1 < 0) = (n2 < 0) THEN Abs(n1) \div Abs(n2)
                    ELSE -(Abs(n1) \div Abs(n2))

\* the lambdas of lines 264, 269, 274, 279 (n2 # 0 for proc_div).  The
\* operands of the model keep every result far inside lisp_int_t.
BinOp(p, n1, n2) ==
    CASE p = "proc_add" -> n1 + n2
      [] p = "proc_sub" -> n1 - n2
      [] p = "proc_mul" -> n1 * n2
      [] p = "proc_div" -> TruncDiv(n1, n2)

\* Op(n1, n2) in proc_arith_impl: returns [n, st]; the division by zero is
\* undefined
ApplyBinOp(p, n1, n2, st) ==
    IF p = "proc_div" /\ n2 = 0
    THEN IF st.ub = "quiet" THEN [n |-> 0, st |-> st]
         ELSE [n |-> 0, st |-> Fault(st, "division by zero")]
    ELSE [n |-> BinOp(p, n1, n2), st |-> st]

\* the lambdas of lines 319, 324, 329, 334, 339, 344
CmpOpWrong(p, n1, n2) ==
    CASE p = "proc_cmpgt" -> n1 >= n2
      [] p = "proc_cmpge" -> n1 > n2
      [] p = "proc_cmplt" -> n1 <= n2
      [] p = "proc_cmple" -> n1 < n2
      [] p = "proc_cmpeq" -> n1 # n2
      [] p = "proc_cmpne" -> n1 = n2
CmpOp(p, n1, n2) ==
    CASE p = "proc_cmpgt" -> n1 > n2
      [] p = "proc_cmpge" -> n1 >= n2
      [] p = "proc_cmplt" -> n1 < n2
      [] p = "proc_cmple" -> n1 <= n2
      [] p = "proc_cmpeq" -> n1 = n2
      [] p = "proc_cmpne" -> n1 # n2

-----------------------------------------------------------------------------
(* eval and the builtins (main.cpp:213-571).  Every operator takes the     *)
(* state st and the number d of nested calls the stack still has room for, *)
(* and returns the state it leaves.                                        *)

RECURSIVE eval(_, _, _, _)
RECURSIVE proc_arith_impl(_, _, _, _, _)
RECURSIVE proc_compare_impl(_, _, _, _, _)
RECURSIVE eval_list(_, _, _, _)
RECURSIVE BindParams(_, _, _, _, _, _, _)

\* lines 241-250: n1 = Op(n1, n2) once the second operand n2 is known
ArithTail(p, n1, n2, st) ==
    Only({[ok |-> ~Faulted(o.st), n |-> o.n, st |-> o.st]
          : o \in {ApplyBinOp(p, n1, n2, st)}})

\* lines 213-252: returns [ok, n, st]
proc_arith_impl(x, env, st, p, d) ==
    IF Faulted(st) THEN [ok |-> FALSE, n |-> 0, st |-> st]
    ELSE IF d = 0 THEN [ok |-> FALSE, n |-> 0, st |-> Fault(st, "stack exhausted")]
    ELSE IF x = NULL THEN [ok |-> FALSE, n |-> 0, st |-> st]
    ELSE IF isAtom(x) THEN [ok |-> isInt(x), n |-> IF isInt(x) THEN x.n ELSE 0, st |-> st]
    ELSE Only({Only({
           IF ~r1.ok THEN [ok |-> FALSE, n |-> 0, st |-> r1.st]
           ELSE IF cdr(x) = NULL THEN r1
           ELSE Only({
                  IF Faulted(cdrval.st) THEN [ok |-> FALSE, n |-> 0, st |-> cdrval.st]
                  ELSE IF cdrval.v # NULL /\ isInt(cdrval.v)
                  THEN ArithTail(p, r1.n, cdrval.v.n, cdrval.st)
                  ELSE Only({IF ~r2.ok THEN [ok |-> FALSE, n |-> 0, st |-> r2.st]
                             ELSE ArithTail(p, r1.n, r2.n, r2.st)
                             : r2 \in {proc_arith_impl(cdr(x), env, cdrval.st, p, d - 1)}})
                  : cdrval \in {eval(cdr(x), env, r1.st, d - 1)}})
           : r1 \in {proc_arith_impl(e1.v, env, e1.st, p, d - 1)}})
           : e1 \in {eval(car(x), env, st, d - 1)}})

\* lines 254-260
proc_arith_main(x, env, st, p, d) ==
    Only({IF r.ok THEN R(Integer(r.n), r.st) ELSE R(false_sexpr, r.st)
          : r \in {proc_arith_impl(x, env, st, p, d)}})

\* lines 283-307: returns [r, n, st], r the bool returned and n the out-parameter
proc_compare_impl(x, env, st, p, d) ==
    IF Faulted(st) THEN [r |-> FALSE, n |-> 0, st |-> st]
    ELSE IF d = 0 THEN [r |-> FALSE, n |-> 0, st |-> Fault(st, "stack exhausted")]
    ELSE IF x = NULL THEN [r |-> FALSE, n |-> 0, st |-> st]
    ELSE IF isAtom(x) THEN [r |-> isInt(x), n |-> IF isInt(x) THEN x.n ELSE 0, st |-> st]
    ELSE Only({Only({
           IF ~r1.r THEN [r |-> FALSE, n |-> r1.n, st |-> r1.st]
           ELSE IF cdr(x) = NULL THEN r1
           ELSE Only({
                  IF Faulted(cdrval.st) THEN [r |-> FALSE, n |-> r1.n, st |-> cdrval.st]
                  ELSE IF cdrval.v # NULL /\ isInt(cdrval.v)
                  THEN [r |-> CmpOp(p, r1.n, cdrval.v.n), n |-> r1.n, st |-> cdrval.st]
                  ELSE Only({IF ~r2.r THEN [r |-> FALSE, n |-> r1.n, st |-> r2.st]
                             ELSE [r |-> CmpOp(p, r1.n, r2.n), n |-> r1.n, st |-> r2.st]
                             : r2 \in {proc_compare_impl(cdr(x), env, cdrval.st, p, d - 1)}})
                  : cdrval \in {eval(cdr(x), env, r1.st, d - 1)}})
           : r1 \in {proc_compare_impl(e1.v, env, e1.st, p, d - 1)}})
           : e1 \in {eval(car(x), env, st, d - 1)}})

\* lines 309-315
proc_compare_main(x, env, st, p, d) ==
    Only({IF r.r THEN R(true_sexpr, r.st) ELSE R(false_sexpr, r.st)
          : r \in {proc_compare_impl(x, env, st, p, d)}})

\* lines 348-356
eval_car(x, env, st, d) ==
    IF x = NULL THEN R(NULL, st)
    ELSE Only({IF e.v = NULL \/ isAtom(e.v) THEN R(bad_sexpr, e.st) ELSE R(car(e.v), e.st)
               : e \in {eval(x, env, st, d - 1)}})

\* lines 358-366
eval_cdr(x, env, st, d) ==
    IF x = NULL THEN R(NULL, st)
    ELSE Only({IF e.v = NULL \/ isAtom(e.v) THEN R(bad_sexpr, e.st) ELSE R(cdr(e.v), e.st)
               : e \in {eval(x, env, st, d - 1)}})

\* lines 368-373: sexpr->car() with no test of sexpr
eval_cons(x, env, st, d) ==
    IF x = NULL THEN R(NULL, Fault(st, "null dereference"))
    ELSE Only({Only({R(Cells(a.v, b.v), b.st)
                     : b \in {eval(cdr(x), env, a.st, d - 1)}})
               : a \in {eval(car(x), env, st, d - 1)}})

\* lines 380-397: cdr->isLispCells() with no test of cdr
eval_list(x, env, st, d) ==
    IF Faulted(st) THEN R(NULL, st)
    ELSE IF d = 0 THEN R(NULL, Fault(st, "stack exhausted"))
    ELSE IF x = NULL THEN R(NULL, st)
    ELSE IF isAtom(x) THEN eval(x, env, st, d - 1)
    ELSE Only({
           IF cdr(x) = NULL THEN R(NULL, Fault(a.st, "null dereference"))
           ELSE IF isLispCells(cdr(x))
           THEN Only({R(Cells(a.v, b.v), b.st)
                      : b \in {eval_list(cdr(x), env, a.st, d - 1)}})
           ELSE Only({R(Cells(a.v, Cells(e.v, NULL)), e.st)
                      : e \in {eval(cdr(x), env, a.st, d - 1)}})
           : a \in {eval_list(car(x), env, st, d - 1)}})

\* lines 400-412
eval_if(x, env, st, d) ==
    IF ~hasTwoOperands(x) THEN R(bad_sexpr, st)
    ELSE Only({IF val.v # false_sexpr THEN eval(car(cdr(x)), env, val.st, d - 1)
               ELSE eval(cdr(cdr(x)), env, val.st, d - 1)
               : val \in {eval(car(x), env, st, d - 1)}})

\* lines 417-433; the call of UpdateSymbol, once it has returned, is recorded
\* in the trace
eval_set(x, env, st, d, is_define) ==
    IF ~hasTwoOperands(x) THEN R(bad_sexpr, st)
    ELSE IF ~isSymbol(car(x)) THEN R(bad_sexpr, st)
    ELSE Only({
           IF Faulted(val.st) THEN val
           ELSE Only({
                  IF Faulted(u.st) THEN R(NULL, u.st)
                  ELSE
                  R(IF u.ok THEN val.v ELSE nil_sexpr,
                    [u.st EXCEPT !.trace = Append(@,
                        [k |-> "update", env |-> env, name |-> car(x).name,
                         define |-> is_define, ok |-> u.ok,
                         before |-> val.st.envs, after |-> u.st.envs,
                         returned |-> IF u.ok THEN val.v ELSE nil_sexpr])])
                  : u \in {UpdateSymbol(val.st, env, car(x).name, val.v, is_define)}})
           : val \in {eval(cdr(x), env, st, d - 1)}})

\* lines 445-455
eval_begin(x, env, st, d) ==
    IF x = NULL THEN R(NULL, st)
    ELSE IF isAtom(x) THEN eval(x, env, st, d - 1)
    ELSE Only({IF cdr(x) # NULL THEN eval(cdr(x), env, val.st, d - 1) ELSE val
               : val \in {eval(car(x), env, st, d - 1)}})

\* lines 489-497
eval_proc(proc, func_body, env, st, d) ==
    IF proc.t # "proc" THEN R(NULL, st)
    ELSE CASE proc.p \in ArithProcs -> proc_arith_main(func_body, env, st, proc.p, d)
           [] proc.p \in CmpProcs -> proc_compare_main(func_body, env, st, proc.p, d)
           [] proc.p = "eval_begin" -> eval_begin(func_body, env, st, d)
           [] proc.p = "eval_car" -> eval_car(func_body, env, st, d)
           [] proc.p = "eval_cdr" -> eval_cdr(func_body, env, st, d)
           [] proc.p = "eval_cons" -> eval_cons(func_body, env, st, d)
           [] proc.p = "eval_define" -> eval_set(func_body, env, st, d, TRUE)
           [] proc.p = "eval_if" -> eval_if(func_body, env, st, d)
           [] proc.p = "eval_list" -> eval_list(func_body, env, st, d)
           [] proc.p = "eval_setq" -> eval_set(func_body, env, st, d, FALSE)

\* environment::environment(params, args, outer), lines 122-137: returns
\* [map, binds, st], binds the evaluations of argument expressions it made:
\* the parameter, the expression, the environment and heap it was evaluated
\* in, and its value.
\* params->car() and args->car() are used with no test of params->car() or args.
BindParams(params, args, outer, map, binds, st, d) ==
    IF Faulted(st) \/ params = NULL THEN [map |-> map, binds |-> binds, st |-> st]
    ELSE IF isSymbol(params)
    THEN Only({[map |-> MapPut(map, params.name, e.v),
                binds |-> Append(binds, [param |-> params.name, expr |-> args,
                                         in |-> outer, heap |-> st.envs, v |-> e.v]),
                st |-> e.st]
               : e \in {eval(args, outer, st, d - 1)}})
    ELSE IF car(params) = NULL
    THEN [map |-> map, binds |-> binds, st |-> Fault(st, "null dereference")]
    ELSE IF args = NULL
    THEN [map |-> map, binds |-> binds, st |-> Fault(st, "null dereference")]
    ELSE IF isSymbol(car(params))
    THEN Only({Only({BindParams(cdr(params), cdr(args), outer, m, bs, e.st, d)
                     : m \in {MapPut(map, car(params).name, e.v)},
                       bs \in {Append(binds, [param |-> car(params).name,
                                              expr |-> car(args),
                                              in |-> outer, heap |-> st.envs,
                                              v |-> e.v])}})
               : e \in {eval(car(args), outer, st, d - 1)}})
    ELSE BindParams(cdr(params), cdr(args), outer, map, binds, st, d)

\* line 502: the third argument of the constructor, l->env()
BindingOuterWrong(l, env) == env
BindingOuter(l, env) == l.env

\* line 505: delete(new_env), whatever still refers to it
Release(es, new) == [es EXCEPT ![new].live = FALSE]

\* lines 499-509; the application is recorded in the trace
eval_lambda(l, args, env, st, d) ==
    Only({
      IF Faulted(b.st) THEN R(NULL, b.st)
      ELSE Only({
             Only({IF Faulted(val.st) THEN val
                   ELSE R(val.v, [val.st EXCEPT !.envs = Release(@, new_env)])
                   : val \in {eval(l.body, new_env, st1, d - 1)}})
             : new_env \in {Len(b.st.envs) + 1},
               st1 \in {[b.st EXCEPT
                          !.envs = Append(@, [map |-> b.map,
                                              outer |-> BindingOuter(l, env),
                                              live |-> TRUE]),
                          !.trace = Append(@, [k |-> "apply", caller |-> env,
                                               captured |-> l.env,
                                               new |-> Len(b.st.envs) + 1,
                                               binds |-> b.binds])]}})
      : b \in {BindParams(l.params, args, BindingOuter(l, env), <<>>, <<>>, st, d - 1)}})

\* lines 511-525
makeLambda(x, env) ==
    IF \/ cdr(x) = NULL
       \/ ~isLispCells(cdr(x))
       \/ (car(cdr(x)) # NULL /\ ~isLispCells(car(cdr(x))))
       \/ cdr(cdr(x)) = NULL
    THEN NULL
    ELSE Lambda(car(cdr(x)), cdr(cdr(x)), env)

\* lines 548-566: the list x whose head is found bound to f
Apply(f, x, env, d) ==
    IF Faulted(f.st) THEN R(NULL, f.st)
    ELSE IF ~f.found THEN R(bad_sexpr, f.st)
    \* val->isLambda(l) with no test of val
    ELSE IF f.v = NULL THEN R(NULL, Fault(f.st, "null dereference"))
    ELSE IF isLambda(f.v) THEN eval_lambda(f.v, cdr(x), env, f.st, d - 1)
    ELSE eval_proc(f.v, cdr(x), env, f.st, d - 1)

\* lines 528-571
eval(x, env, st, d) ==
    IF Faulted(st) THEN R(NULL, st)
    ELSE IF d = 0 THEN R(NULL, Fault(st, "stack exhausted"))
    ELSE IF x = NULL \/ x = nil_sexpr \/ x = bad_sexpr \/ isConstant(x) THEN R(x, st)
    ELSE IF isAtom(x)
    THEN IF isSymbol(x)
         THEN Only({IF f.found THEN R(f.v, f.st) ELSE R(nil_sexpr, f.st)
                    : f \in {FindSymbol(st, env, x.name)}})
         ELSE R(nil_sexpr, st)
    ELSE IF car(x) = NULL \/ car(x) = nil_sexpr \/ car(x) = bad_sexpr \/ isConstant(car(x))
    THEN R(bad_sexpr, st)
    ELSE IF isSymbol(car(x))
    THEN IF car(x).name = S_quote THEN R(cdr(x), st)
         ELSE IF car(x).name = S_lambda THEN R(makeLambda(x, env), st)
         ELSE Only({Apply(f, x, env, d) : f \in {FindSymbol(st, env, car(x).name)}})
    ELSE R(NULL, st)

-----------------------------------------------------------------------------
(* One iteration of repl (main.cpp:758-793)                                *)

\* how deep the calls of one eval may nest before the stack is exhausted
MaxDepth == 24

\* lines 780-791, once the line is read as o from the tokens tk.tokens and
\* evaluated to e
ReplDone(tk, o, e, es, ub) ==
    [envs |-> e.st.envs, tokens |-> tk.tokens, sexpr |-> o.v, cursor |-> o.pos,
     echo |-> printLispObject(o.v),
     result |-> IF Faulted(e.st) THEN NULL ELSE e.v,
     printed |-> IF Faulted(e.st) THEN <<>> ELSE printLispObject(e.v),
     undef |-> e.st.undef, trace |-> e.st.trace,
     status |-> IF Faulted(e.st) THEN e.st.fault
                \* line 790-791: with no token at all *it_next is *end
                ELSE IF tk.tokens = <<>>
                THEN IF ub = "trap" THEN "crashed" ELSE "extraneous input"
                ELSE IF o.pos # Len(tk.tokens) THEN "extraneous input"
                ELSE "ok"]

\* the iteration stopped before eval
ReplNone(tk, es, s) ==
    [envs |-> es, tokens |-> tk.tokens, sexpr |-> NULL, cursor |-> 1,
     echo |-> <<>>, result |-> NULL, printed |-> <<>>,
     undef |-> <<>>, trace |-> <<>>, status |-> s]

\* The iteration on input line ln, from heap es, when undefined behaviour
\* does ub: the values of the variables afterwards.
ReplStep(ln, es, ub) ==
    Only({
      \* the leading skip read past the end of the line
      IF ~tk.ok /\ ub = "trap" THEN ReplNone(tk, es, "crashed")
      \* lines 768-779
      ELSE IF ~Balanced(tk.tokens) THEN ReplNone(tk, es, "unbalanced")
      ELSE Only({
             \* the tree builder read past the last token
             IF ~o.ok THEN ReplNone(tk, es, "crashed")
             ELSE Only({ReplDone(tk, o, e, es, ub)
                        : e \in {eval(o.v, 1, [envs |-> es, undef |-> <<>>,
                                               trace |-> <<>>, fault |-> "none",
                                               ub |-> ub], MaxDepth)}})
             : o \in {makeLispObject(tk.tokens, 1)}})
      : tk \in {tokenize(ln)}})

\* the process is alive
Running == status \in {"start", "ok", "extraneous input", "unbalanced"}

\* the endings that undefined behaviour may or may not bring about
UBStatuses == {"crashed", "null dereference", "use-after-free", "division by zero"}

\* repl reads the line ln and handles it
Repl(ln) ==
    /\ Running
    /\ \E t \in {ReplStep(ln, envs, "trap")} :
       \E ub \in {"trap", "quiet"} :
          /\ ub = "quiet" => t.status \in UBStatuses
          /\ \E r \in {IF ub = "trap" THEN t ELSE ReplStep(ln, envs, "quiet")} :
             /\ envs' = r.envs
             /\ tokens' = r.tokens
             /\ sexpr' = r.sexpr
             /\ cursor' = r.cursor
             /\ echo' = r.echo
             /\ result' = r.result
             /\ printed' = r.printed
             /\ status' = r.status
             /\ undefined_symbols' = r.undef
             /\ trace' = r.trace
    /\ line' = ln
    /\ input' = Append(input, ln)

\* main, lines 799-800
Init ==
    /\ envs = <<global_env>>
    /\ line = <<>>
    /\ tokens = <<>>
    /\ sexpr = NULL
    /\ cursor = 1
    /\ echo = <<>>
    /\ result = NULL
    /\ printed = <<>>
    /\ status = "start"
    /\ undefined_symbols = <<>>
    /\ trace = <<>>
    /\ input = <<>>

-----------------------------------------------------------------------------
(* Input lines                                                             *)

RECURSIVE JoinTokens(_)
\* the tokens, separated by single spaces
JoinTokens(ts) == IF ts = <<>> THEN <<>>
                  ELSE IF Len(ts) = 1 THEN ts[1]
                  ELSE ts[1] \o <<" ">> \o JoinTokens(Tail(ts))

SeqsUpTo(S, n) == UNION {[1..k -> S] : k \in 0..n}

\* (define x 1)
L_define_x_1 == <<"(","d","e","f","i","n","e"," ","x"," ","1",")">>
\* (define x 2)
L_define_x_2 == <<"(","d","e","f","i","n","e"," ","x"," ","2",")">>
\* (define f (lambda () x))
L_define_f == <<"(","d","e","f","i","n","e"," ","f"," ","(","l","a","m","b","d","a"," ","(",")"," ","x",")",")">>
\* (f 0)
L_call_f == <<"(","f"," ","0",")">>
\* (f)
L_f == <<"(","f",")">>
\* (setq x 5)
L_setq_x == <<"(","s","e","t","q"," ","x"," ","5",")">>
\* (define s (lambda (x y) (setq x 7)))
L_define_s == <<"(","d","e","f","i","n","e"," ","s"," ","(","l","a","m","b","d","a"," ","(","x"," ","y",")"," ","(","s","e","t","q"," ","x"," ","7",")",")",")">>
\* (s 3 4)
L_call_s == <<"(","s"," ","3"," ","4",")">>
\* (define k (lambda () (setq x 7)))
L_define_k == <<"(","d","e","f","i","n","e"," ","k"," ","(","l","a","m","b","d","a"," ","(",")"," ","(","s","e","t","q"," ","x"," ","7",")",")",")">>
\* (k 0)
L_call_k == <<"(","k"," ","0",")">>
\* (define mk (lambda () (lambda () x)))
L_define_mk == <<"(","d","e","f","i","n","e"," ","m","k"," ","(","l","a","m","b","d","a"," ","(",")"," ","(","l","a","m","b","d","a"," ","(",")"," ","x",")",")",")">>
\* (define g (mk 0))
L_define_g == <<"(","d","e","f","i","n","e"," ","g"," ","(","m","k"," ","0",")",")">>
\* (g 0)
L_call_g == <<"(","g"," ","0",")">>
\* (define h (lambda (a b) a))
L_define_h == <<"(","d","e","f","i","n","e"," ","h"," ","(","l","a","m","b","d","a"," ","(","a"," ","b",")"," ","a",")",")">>
\* (define c (lambda (p q) (h p q)))
L_define_c == <<"(","d","e","f","i","n","e"," ","c"," ","(","l","a","m","b","d","a"," ","(","p"," ","q",")"," ","(","h"," ","p"," ","q",")",")",")">>
\* (c 1 2)
L_call_c == <<"(","c"," ","1"," ","2",")">>
\* (define t (lambda (a b c) a))
L_define_t == <<"(","d","e","f","i","n","e"," ","t"," ","(","l","a","m","b","d","a"," ","(","a"," ","b"," ","c",")"," ","a",")",")">>
\* (t 1)
L_call_t_1 == <<"(","t"," ","1",")">>
\* (t 1 2)
L_call_t_2 == <<"(","t"," ","1"," ","2",")">>
\* (h 1 2 3)
L_call_h_3 == <<"(","h"," ","1"," ","2"," ","3",")">>

-----------------------------------------------------------------------------
(* Spec: sessions about closures - capture, release, argument binding      *)

MaxSteps == 3
ClosureLines == {L_define_x_1, L_define_mk, L_define_g, L_call_g, L_define_h,
                 L_define_c, L_call_c, L_define_t, L_call_t_1, L_call_t_2, L_call_h_3}
Next == \E ln \in ClosureLines : Len(input) < MaxSteps /\ Repl(ln)
Spec == Init /\ [][Next]_vars

-----------------------------------------------------------------------------
(* SpecDefine: sessions about define and setq                              *)

MaxDefineSteps == 4
DefineLines == {L_define_x_1, L_define_x_2, L_define_f, L_call_f, L_f, L_setq_x,
                L_define_s, L_call_s, L_define_k, L_call_k}
NextDefine == \E ln \in DefineLines : Len(input) < MaxDefineSteps /\ Repl(ln)
SpecDefine == Init /\ [][NextDefine]_vars

-----------------------------------------------------------------------------
(* SpecArith: one line (op x1 ... xn), op an arithmetic or a comparison    *)
(* builtin and x1 .. xn numeric literals                                   *)

MaxOperands == 3
ArithTokens == {<<"+">>, <<"-">>, <<"*">>, <<"/">>}
CmpTokens == {<<">">>, <<">", "=">>, <<"<">>, <<"<", "=">>, <<"e", "q">>, <<"n", "e">>}
LiteralTokens == {<<"0">>, <<"1">>, <<"2">>, <<"7">>, <<"-", "1">>}
Form(op, xs) == JoinTokens(<<<<"(">>, op>> \o xs \o <<<<")">>>>)
NextArith ==
    \E op \in ArithTokens \cup CmpTokens, n \in 2..MaxOperands :
       \E xs \in [1..n -> LiteralTokens] : status = "start" /\ Repl(Form(op, xs))
SpecArith == Init /\ [][NextArith]_vars

-----------------------------------------------------------------------------
(* SpecRead: one line of up to MaxTokens tokens                            *)

MaxTokens == 5
AtomTokens == {<<"a">>, <<"7">>, <<"\"", "s", "\"">>}
ReadTokens == {<<"(">>, <<")">>} \cup AtomTokens
NextRead ==
    \E ts \in SeqsUpTo(ReadTokens, MaxTokens) : status = "start" /\ Repl(JoinTokens(ts))
SpecRead == Init /\ [][NextRead]_vars

-----------------------------------------------------------------------------
(* SpecOperands: one line (op e1 ... en), op an arithmetic or a comparison *)
(* builtin and e1 .. en operand expressions of every kind of value, after  *)
(* an optional (define h (lambda (a b) a))                                 *)

\* 1, 2: Integers
IntegerExprs == {<<"1">>, <<"2">>}
\* a (unbound: #nil), "s", #t, h (a closure once defined), (quote (1 2)) (a Pair)
OtherExprs == {<<"a">>, <<"\"", "s", "\"">>, <<"#", "t">>, <<"h">>,
               <<"(","q","u","o","t","e"," ","(","1"," ","2",")",")">>}
OperandExprs == IntegerExprs \cup OtherExprs
DefineClosure == status = "start" /\ Repl(L_define_h)
CallBuiltin ==
    \E op \in ArithTokens \cup CmpTokens, n \in 2..MaxOperands :
       \E xs \in [1..n -> OperandExprs] :
          input \in {<<>>, <<L_define_h>>} /\ Repl(Form(op, xs))
NextOperands == DefineClosure \/ CallBuiltin
SpecOperands == Init /\ [][NextOperands]_vars

-----------------------------------------------------------------------------
(* SpecLiteral: one line that is a numeric literal - an optional sign,     *)
(* then decimal digits or 0x and hexadecimal digits                        *)

MaxDigits == 3
LiteralSigns == {<<>>, <<"+">>, <<"-">>}
LiteralPrefixes == {<<>>, <<"0", "x">>}
LiteralDigits == {"0", "1", "7", "9"}
NextLiteral ==
    \E sign \in LiteralSigns, prefix \in LiteralPrefixes, n \in 1..MaxDigits :
       \E ds \in [1..n -> LiteralDigits] :
          status = "start" /\ Repl(sign \o prefix \o ds)
SpecLiteral == Init /\ [][NextLiteral]_vars

-----------------------------------------------------------------------------
(* SpecCursor: one line of up to MaxTokens items, each a parenthesis, an   *)
(* atom, or a character the tokenizer reports and ignores                  *)

IgnoredItems == {<<".">>}
CursorItems == {<<"(">>, <<")">>, <<"a">>} \cup IgnoredItems
NextCursor ==
    \E ts \in SeqsUpTo(CursorItems, MaxTokens) \ {<<>>} :
       status = "start" /\ Repl(JoinTokens(ts))
SpecCursor == Init /\ [][NextCursor]_vars

-----------------------------------------------------------------------------
(* Properties.  Each is stated on the variables one iteration of repl      *)
(* leaves: tokens and sexpr are what was read from line, result is what    *)
(* eval returned, trace the closure applications and UpdateSymbol calls.   *)

\* the value a numeric literal denotes: an optional sign and decimal digits
LiteralValue(tok) ==
    IF tok[1] = "-" THEN 0 - ParseDigits(tok, 2, 10, 0)
    ELSE IF tok[1] = "+" THEN ParseDigits(tok, 2, 10, 0)
    ELSE ParseDigits(tok, 1, 10, 0)

\* the line read was (op x1 ... xn)
Operator == tokens[2]
OperandTokens == SubSeq(tokens, 3, Len(tokens) - 1)
LiteralOperands == [i \in DOMAIN OperandTokens |-> LiteralValue(OperandTokens[i])]

RECURSIVE Flatten(_)
\* the items of a chain of cells, its last tail included when not absent
Flatten(v) == IF v = NULL THEN <<>>
              ELSE IF isLispCells(v) THEN <<car(v)>> \o Flatten(cdr(v))
              ELSE <<v>>

\* the operand cells of the form that was read
Operands == Flatten(cdr(sexpr))
IntegerOperands == \A i \in DOMAIN Operands : Operands[i] # NULL /\ isInt(Operands[i])

RECURSIVE Sum(_)
Sum(xs) == IF xs = <<>> THEN 0 ELSE Head(xs) + Sum(Tail(xs))
RECURSIVE Product(_)
Product(xs) == IF xs = <<>> THEN 1 ELSE Head(xs) * Product(Tail(xs))

\* C1: for n >= 2 Integer literal operands, (+ x1 ... xn) returns their sum
\* and (* x1 ... xn) their product; (- a b) returns a-b and, for b # 0,
\* (/ a b) returns a/b.
C1_LiteralArithmetic ==
    (status # "start" /\ Operator \in ArithTokens) =>
        /\ Operator = <<"+">> => status = "ok" /\ result = Integer(Sum(LiteralOperands))
        /\ Operator = <<"*">> => status = "ok" /\ result = Integer(Product(LiteralOperands))
        /\ (Operator = <<"-">> /\ Len(LiteralOperands) = 2) =>
               status = "ok" /\ result = Integer(LiteralOperands[1] - LiteralOperands[2])
        /\ (Operator = <<"/">> /\ Len(LiteralOperands) = 2 /\ LiteralOperands[2] # 0) =>
               /\ status = "ok"
               /\ result = Integer(TruncDiv(LiteralOperands[1], LiteralOperands[2]))

\* the operator a token names
FoldOp(op, a, b) ==
    CASE op = <<"+">> -> a + b
      [] op = <<"-">> -> a - b
      [] op = <<"*">> -> a * b
      [] op = <<"/">> -> TruncDiv(a, b)

RECURSIVE LeftFold(_, _, _, _)
\* ((acc op xs[i]) op xs[i+1]) ... op xs[n]
LeftFold(op, xs, acc, i) ==
    IF i > Len(xs) THEN acc ELSE LeftFold(op, xs, FoldOp(op, acc, xs[i]), i + 1)

\* the left fold divides by no zero
FoldDefined(op, xs) == op = <<"/">> => \A i \in 2..Len(xs) : xs[i].n # 0

\* C2: for each arithmetic builtin and every chain of n >= 2 Integer
\* operands, the call returns the left fold ((x1 op x2) op x3) ... op xn.
C2_LeftFold ==
    (/\ status # "start"
     /\ Operator \in ArithTokens
     /\ IntegerOperands
     /\ FoldDefined(Operator, Operands)) =>
        /\ status = "ok"
        /\ result = Integer(LeftFold(Operator, [i \in DOMAIN Operands |-> Operands[i].n],
                                     Operands[1].n, 2))

\* the relation a token names
Rel(op, a, b) ==
    CASE op = <<">">> -> a > b
      [] op = <<">", "=">> -> a >= b
      [] op = <<"<">> -> a < b
      [] op = <<"<", "=">> -> a <= b
      [] op = <<"e", "q">> -> a = b
      [] op = <<"n", "e">> -> a # b

\* C3: for each comparison builtin and every chain of n >= 2 Integer
\* operands, the call returns #t exactly when every adjacent pair
\* (xi, xi+1) satisfies the relation and #f otherwise, whatever holds of the
\* pairs that are not adjacent.
C3_AdjacentPairs ==
    (status # "start" /\ Operator \in CmpTokens /\ IntegerOperands) =>
        /\ status = "ok"
        /\ result = IF \A i \in 1..(Len(Operands) - 1) :
                           Rel(Operator, Operands[i].n, Operands[i + 1].n)
                    THEN true_sexpr ELSE false_sexpr

\* (ne 1 2 1) returned #t, though ne does not hold of its first and last operand
C3_Witness ==
    /\ status = "ok"
    /\ line = Form(<<"n", "e">>, <<<<"1">>, <<"2">>, <<"1">>>>)
    /\ IntegerOperands /\ Len(Operands) = 3
    /\ result = true_sexpr

\* the session (define x 1) (define f (lambda () x)) (define x 2), then f applied
DefineSession == <<L_define_x_1, L_define_f, L_define_x_2>>

\* C4 as stated: after a define of x to 1, a define of f to a parameterless
\* closure whose body is x, and a second define of x to 2, applying f
\* returns the Integer 1.
C4_ReturnsFirstDefinition ==
    input \in {Append(DefineSession, L_call_f), Append(DefineSession, L_f)} =>
        status = "ok" /\ result = Integer(1)

\* C4, amended: after that session, applying f with the form (f 0) returns
\* the Integer 2, the value the second define gave x.
C4_ReturnsCurrentDefinition ==
    input = Append(DefineSession, L_call_f) => status = "ok" /\ result = Integer(2)

\* the session ran and f was applied: its body was evaluated in a new environment
C4_Witness ==
    /\ input = Append(DefineSession, L_call_f)
    /\ status = "ok"
    /\ \E i \in DOMAIN trace : trace[i].k = "apply" /\ trace[i].captured = 1
    /\ envs[1].map[<<"x">>] = Integer(2)

\* the closures that can still be used: the one just returned and those
\* bound in a live environment
ReachableClosures ==
    (IF isLambda(result) THEN {result} ELSE {})
    \cup {c \in UNION {Range(envs[e].map) : e \in {i \in DOMAIN envs : envs[i].live}} :
             isLambda(c)}

\* C5: in every reachable state, the captured environment of every closure
\* still reachable (returned from a call or bound in a live environment) has
\* not been released.
C5_CapturedEnvLive == \A c \in ReachableClosures : envs[c.env].live

RECURSIVE Innermost(_, _, _)
\* the first environment from e outward that binds name in heap; 0 if none
Innermost(heap, e, name) ==
    IF e = 0 THEN 0
    ELSE IF name \in DOMAIN heap[e].map THEN e
    ELSE Innermost(heap, heap[e].outer, name)

Applications == {trace[i] : i \in {j \in DOMAIN trace : trace[j].k = "apply"}}

\* C6: when a closure is applied, every argument expression is evaluated in
\* the closure's captured environment and never in the environment of the
\* call site: an argument that is a name gets the value the captured chain
\* gives it, and #nil when only the caller's chain binds it.
C6_ArgsInCapturedEnv ==
    \A ev \in Applications : \A i \in DOMAIN ev.binds :
        /\ ev.binds[i].in = ev.captured
        /\ ev.binds[i].expr.t = "sym" =>
              ev.binds[i].v =
                 IF Innermost(ev.binds[i].heap, ev.captured, ev.binds[i].expr.name) = 0
                 THEN nil_sexpr
                 ELSE ev.binds[i].heap[Innermost(ev.binds[i].heap, ev.captured,
                                                 ev.binds[i].expr.name)]
                         .map[ev.binds[i].expr.name]

\* a closure was applied from inside another's invocation, with an argument
\* that names a parameter of the caller: it was bound to #nil
C6_Witness ==
    \E ev \in Applications : \E i \in DOMAIN ev.binds :
        /\ ev.caller # ev.captured
        /\ ev.binds[i].expr.t = "sym"
        /\ Innermost(ev.binds[i].heap, ev.caller, ev.binds[i].expr.name) = ev.caller
        /\ Innermost(ev.binds[i].heap, ev.captured, ev.binds[i].expr.name) = 0
        /\ ev.binds[i].v = nil_sexpr

Assignments == {trace[i] : i \in {j \in DOMAIN trace :
                                     trace[j].k = "update" /\ ~trace[j].define}}

\* C7: for setq of a name in any environment of a chain: if some environment
\* from the current one outward binds the name, only the innermost such
\* binding is overwritten and every other mapping is unchanged; if none binds
\* it, no mapping changes and the result is #nil.
C7_SetqFrame ==
    \A ev \in Assignments :
        IF Innermost(ev.before, ev.env, ev.name) # 0
        THEN /\ ev.ok
             /\ ev.after = [ev.before EXCEPT
                               ![Innermost(ev.before, ev.env, ev.name)].map[ev.name] =
                                   ev.returned]
        ELSE /\ ~ev.ok
             /\ ev.after = ev.before
             /\ ev.returned = nil_sexpr

\* setq ran inside an invocation whose environment binds the name that the
\* global environment binds too, and changed the inner binding
C7_Witness ==
    \E ev \in Assignments :
        /\ ev.env # 1
        /\ Innermost(ev.before, ev.env, ev.name) = ev.env
        /\ ev.name \in DOMAIN ev.before[1].map
        /\ ev.after # ev.before
        /\ ev.after[1] = ev.before[1]

\* what was read from the text s
Read(s) == makeLispObject(tokenize(s).tokens, 1).v

\* C8: for every tree v the reader builds from a balanced token sequence of
\* Integers, StringLiterals, Symbols and parenthesised lists of them, the
\* empty list and nested lists included, reading the printer's rendering of
\* v yields v.
C8_RoundTrip == status = "ok" => Read(echo) = sexpr

RECURSIVE ProperList(_)
\* the right-nested chain of Pairs with these heads and an absent last tail
ProperList(heads) ==
    IF heads = <<>> THEN NULL ELSE Cells(Head(heads), ProperList(Tail(heads)))

\* the line read was ( a1 ... an ), n >= 1, every ai an atom token
AtomList ==
    /\ Len(tokens) >= 3
    /\ tokens[1] = <<"(">>
    /\ tokens[Len(tokens)] = <<")">>
    /\ \A i \in 2..(Len(tokens) - 1) : tokens[i] \in AtomTokens

\* C9: reading a parenthesised sequence of n >= 1 atom tokens yields a
\* right-nested chain of exactly n Pairs whose heads are the atoms in order
\* and whose last tail is absent; a one-element list reads as a Pair.
C9_ProperList ==
    AtomList =>
        sexpr = ProperList([i \in 1..(Len(tokens) - 2) |->
                               makeLispObject(<<tokens[i + 1]>>, 1).v])

\* the line read applies a closure bound in the global environment to a
\* number of arguments other than the number of its parameters
ArityMismatch ==
    /\ line \in {L_call_t_1, L_call_t_2, L_call_h_3}
    /\ tokens[2] \in DOMAIN envs[1].map
    /\ isLambda(envs[1].map[tokens[2]])

\* C10: applying a closure whose parameter list and argument list differ in
\* length never faults: the parameters bound so far stay bound, and the body
\* is evaluated.
C10_ArityMismatchNeverFaults ==
    ArityMismatch =>
        /\ status = "ok"
        /\ \E ev \in Applications : DOMAIN envs[ev.new].map # {}


\* the value the operand expression x has by itself in the heap es
OperandValue(x, es) ==
    eval(Read(x), 1, [envs |-> es, undef |-> <<>>, trace |-> <<>>,
                      fault |-> "none", ub |-> "trap"], MaxDepth).v

\* the line read was (op e1 ... en), op a builtin of ts, and some ei has a
\* value that is not an Integer
NonIntegerOperand(ts) ==
    \E op \in ts, n \in 2..MaxOperands : \E xs \in [1..n -> OperandExprs] :
        /\ line = Form(op, xs)
        /\ \E i \in 1..n : ~isInt(OperandValue(xs[i], envs))

\* C11: an arithmetic or comparison call in which some operand evaluates to
\* a value that is not an Integer (a Pair such as a quoted list of
\* integers, a Symbol, a StringLiteral, a sentinel or a Closure) returns #f,
\* whatever the other operands are.
C11_NonIntegerOperand ==
    NonIntegerOperand(ArithTokens \cup CmpTokens) =>
        status = "ok" /\ result = false_sexpr


\* tok is a numeric-literal token: digits after an optional sign
NumericToken(tok) ==
    \/ isdigit(tok[1])
    \/ tok[1] \in {"+", "-"} /\ Len(tok) >= 2 /\ isdigit(tok[2])

\* C12: every numeric-literal token the tokenizer emits, one with a leading
\* + or - sign included, is built by the reader into an Integer equal to
\* the literal, never into a Symbol.
C12_NumericTokenIsInteger ==
    (status # "start" /\ tokens # <<>> /\ NumericToken(tokens[1])) =>
        sexpr = Integer(LiteralValue(tokens[1]))

\* the number of tokens of toks that begin with the character c
RECURSIVE CountOf(_, _)
CountOf(c, toks) ==
    IF toks = <<>> THEN 0
    ELSE (IF Head(toks)[1] = c THEN 1 ELSE 0) + CountOf(c, Tail(toks))

\* toks has as many "(" tokens as ")" tokens
PassesBalanceCheck(toks) == CountOf("(", toks) = CountOf(")", toks)

\* the index of the ")" that closes the parenthesis open at depth d when the
\* scan is at index i; 0 when toks ends first
RECURSIVE MatchFrom(_, _, _)
MatchFrom(toks, i, d) ==
    IF i > Len(toks) THEN 0
    ELSE IF toks[i][1] = "(" THEN MatchFrom(toks, i + 1, d + 1)
    ELSE IF toks[i][1] = ")"
         THEN IF d = 1 THEN i ELSE MatchFrom(toks, i + 1, d - 1)
    ELSE MatchFrom(toks, i + 1, d)

\* where the claim puts the cursor when the tree builder returns
ExpectedCursor(toks) ==
    IF toks[1][1] # "(" THEN 1 ELSE MatchFrom(toks, 2, 1)

\* the tree builder returned: repl printed the echo of lines 783-785
BuilderReturned == echo # <<>>

\* C13: for every token sequence that passes the balance check, the tree
\* builder does not run past the last token (it returns), and when it
\* returns the cursor is on a token of the sequence: the first token when
\* that is not "(", the ")" that matches the first "(" otherwise.
C13_CursorOnToken ==
    (status # "start" /\ PassesBalanceCheck(tokens)) =>
        /\ tokens # <<>> => BuilderReturned
        /\ BuilderReturned =>
              /\ cursor \in DOMAIN tokens
              /\ cursor = ExpectedCursor(tokens)


=============================================================================
